---- MODULE Spec2Model ----
(***************************************************************************)
(* A model of the GoodreadsScraper extraction helpers:                     *)
(*   - visit_path / json_field_extractor_v2  (GoodreadsScraper/items.py)   *)
(*   - deduplicate_text                      (GoodreadsScraper/items.py)   *)
(*   - combine_and_dedupe                    (combine_files.py)            *)
(* Python strings are sequences of one-character strings, so that          *)
(* startswith / endswith / index / split / slicing are computed and not    *)
(* assumed.  JSON values are tagged records.                               *)
(***************************************************************************)
EXTENDS Integers, Sequences, FiniteSets, Bags, TLC

VARIABLES
    data, key,          \* arguments of extract_field: the decoded document, the path
    stack,              \* active visit_path generator frames, outermost first
    out,                \* values yielded so far to list(...)
    pc,                 \* "run" | "done" (list built) | "raised" (exception escaped)
    steps,              \* generator steps taken so far by the call
    input,              \* deduplicate_text: the text first passed in
    text,               \* the argument of the running deduplicate_text call
    split_point,        \* its loop variable
    ret,                \* its return value
    npc,                \* "check" | "scan" | "returned"
    call,               \* 1: deduplicate_text(input); 2: the call on that result
    first,              \* what call 1 returned
    files,              \* combine_and_dedupe: the lines of each file of sorted(glob(pattern))
    fileIdx, lineIdx,   \* the file and the line the loops are at
    seen_urls,          \* the set of kept urls
    unique_items,       \* the kept items, in order
    cpc,                \* "read" | "written" | "aborted" (uncaught exception)
    output              \* what was dumped to output_file

mvars == <<data, key, stack, out, pc, steps>>

nvars == <<input, text, split_point, ret, npc, call, first>>

cvars == <<files, fileIdx, lineIdx, seen_urls, unique_items, cpc, output>>

vars == <<mvars, nvars, cvars>>

-----------------------------------------------------------------------------
(* JSON values as json.loads returns them *)

Null == [t |-> "null"]
Bool(b) == [t |-> "bool", b |-> b]
Num(n) == [t |-> "num", n |-> n]
Str(s) == [t |-> "str", s |-> s]
List(xs) == [t |-> "list", items |-> xs]
Dict(kvs) == [t |-> "dict", kvs |-> kvs]

KV(k, v) == [k |-> k, v |-> v]

IsDict(v) == v.t = "dict"

\* only None counts as no data
FalsyIfNone(v) == v.t = "null"

\* Python truthiness: `not data`
Falsy(v) ==
    \/ v.t = "null"
    \/ v.t = "bool" /\ ~v.b
    \/ v.t = "num" /\ v.n = 0
    \/ v.t = "str" /\ v.s = <<>>
    \/ v.t = "list" /\ v.items = <<>>
    \/ v.t = "dict" /\ v.kvs = <<>>

\* dict.keys(): keys in the dict's own (insertion) order
Keys(d) == [i \in 1..Len(d.kvs) |-> d.kvs[i].k]

HasKey(d, k) == \E i \in 1..Len(d.kvs) : d.kvs[i].k = k

\* d[k] for a key that is present
Item(d, k) == d.kvs[CHOOSE i \in 1..Len(d.kvs) : d.kvs[i].k = k].v

\* dict.get(k, default)
Get(d, k, default) == IF HasKey(d, k) THEN Item(d, k) ELSE default

-----------------------------------------------------------------------------
(* str methods used by visit_path *)

StartsWith(s, prefix) ==
    Len(prefix) <= Len(s) /\ SubSeq(s, 1, Len(prefix)) = prefix

EndsWith(s, suffix) ==
    Len(suffix) <= Len(s) /\ SubSeq(s, Len(s) - Len(suffix) + 1, Len(s)) = suffix

\* `c in s`
Contains(s, c) == \E i \in 1..Len(s) : s[i] = c

\* s.index(c): first position of c (1-based here)
Index(s, c) == CHOOSE i \in 1..Len(s) : s[i] = c /\ \A j \in 1..(i - 1) : s[j] # c

\* s.split(c)
RECURSIVE Split(_, _)
Split(s, c) ==
    IF Contains(s, c)
    THEN <<SubSeq(s, 1, Index(s, c) - 1)>> \o Split(SubSeq(s, Index(s, c) + 1, Len(s)), c)
    ELSE <<s>>

-----------------------------------------------------------------------------
(* visit_path: one generator body, from its entry to its first delegation *)

\* lines 49-53: the head segment of the dotted key
Subkey(k) == IF Contains(k, ".") THEN SubSeq(k, 1, Index(k, ".") - 1) ELSE k

\* the key handed on unchanged
RemainingKeySame(k) == k

\* lines 49-53: the rest of the key; None (no '.') and "" are both falsy and are
\* only ever tested with `not key`, so both are the empty sequence here
RemainingKey(k) ==
    IF Contains(k, ".") THEN SubSeq(k, Index(k, ".") + 1, Len(k)) ELSE <<>>

\* keys chosen by their end instead of their start
MatchingSubkeysBySuffix(d, subkey_prefix) ==
    SelectSeq(Keys(d), LAMBDA k : EndsWith(k, subkey_prefix))

\* line 62: [k for k in data.keys() if k.startswith(subkey_prefix)]
MatchingSubkeys(d, subkey_prefix) ==
    SelectSeq(Keys(d), LAMBDA k : StartsWith(k, subkey_prefix))

\* line 76: what `for value in values` iterates over: the elements of a list,
\* the characters of a str, the keys of a dict; anything else is a TypeError
CanIterate(v) == v.t \in {"list", "str", "dict"}

IterItems(v) ==
    CASE v.t = "list" -> v.items
      [] v.t = "str" -> [i \in 1..Len(v.s) |-> Str(<<v.s[i]>>)]
      [] v.t = "dict" -> [i \in 1..Len(v.kvs) |-> Str(v.kvs[i].k)]

\* the array walked from its last element to its first
ArrayValuesReversed(d, name) ==
    LET v == Get(d, name, List(<<>>))
    IN IF v.t = "list"
       THEN List([i \in 1..Len(v.items) |-> v.items[Len(v.items) + 1 - i]])
       ELSE v

\* line 74: data.get(subkey, [])
ArrayValues(d, name) == Get(d, name, List(<<>>))

\* a dict's keys after one more value[name] = ... assignment
Inserted(ks, name) ==
    IF \E i \in 1..Len(ks) : ks[i] = name THEN ks ELSE Append(ks, name)

\* the keys of a dict filled by successive value[sk] = ... assignments
RECURSIVE InsertionOrder(_)
InsertionOrder(names) ==
    IF names = <<>> THEN <<>>
    ELSE Inserted(InsertionOrder(SubSeq(names, 1, Len(names) - 1)), names[Len(names)])

\* the composite of the keys that are there, without the missing ones
MultiValueOfPresent(d, subkeys) ==
    LET ks == SelectSeq(InsertionOrder(subkeys), LAMBDA k : HasKey(d, k))
    IN Dict([i \in 1..Len(ks) |-> KV(ks[i], Item(d, ks[i]))])

\* lines 85-88: the composite of the comma-separated keys
MultiValue(d, subkeys) ==
    LET ks == InsertionOrder(subkeys)
    IN Dict([i \in 1..Len(ks) |-> KV(ks[i], Get(d, ks[i], Null))])

Todo(kind, values, rest) == [kind |-> kind, values |-> values, key |-> rest]

\* lines 37-96: what one call does with (data, key).  kind is
\*   "nodata"   return at once (line 41)
\*   "leaf"     yield data (line 45)
\*   "wildcard" recurse into values in turn with key (line 65)
\*   "array"    recurse into values in turn with key (line 77)
\*   "multi"    yield the composite (line 89)
\*   "key"      recurse into the one value with key (line 94)
\*   "raise"    AttributeError (.keys / .get of a non-dict) or TypeError
\*              (iterating a non-iterable)
Body(d, k) ==
    IF Falsy(d) THEN Todo("nodata", <<>>, <<>>)
    ELSE IF k = <<>> THEN Todo("leaf", <<d>>, <<>>)
    ELSE
      LET subkey == Subkey(k)
          remaining_key == RemainingKey(k)
      IN
      IF EndsWith(subkey, <<"*">>) THEN
          IF ~IsDict(d) THEN Todo("raise", <<>>, <<>>)
          ELSE LET sks == MatchingSubkeys(d, SubSeq(subkey, 1, Len(subkey) - 1))
               IN Todo("wildcard", [i \in 1..Len(sks) |-> Item(d, sks[i])], remaining_key)
      ELSE IF EndsWith(subkey, <<"[", "]">>) THEN
          IF ~IsDict(d) THEN Todo("raise", <<>>, <<>>)
          ELSE LET values == ArrayValues(d, SubSeq(subkey, 1, Len(subkey) - 2))
               IN IF CanIterate(values)
                  THEN Todo("array", IterItems(values), remaining_key)
                  ELSE Todo("raise", <<>>, <<>>)
      ELSE IF StartsWith(subkey, <<"[">>) /\ EndsWith(subkey, <<"]">>) THEN
          IF ~IsDict(d) THEN Todo("raise", <<>>, <<>>)
          ELSE Todo("multi",
                    <<MultiValue(d, Split(SubSeq(subkey, 2, Len(subkey) - 1), ","))>>,
                    <<>>)
      ELSE
          IF ~IsDict(d) THEN Todo("raise", <<>>, <<>>)
          ELSE Todo("key", <<Get(d, subkey, Null)>>, remaining_key)

\* The result of running a generator to its end: the values it yielded, and
\* whether an exception ended it.
Outcome(raised, yielded) == [raised |-> raised, out |-> yielded]

RECURSIVE VisitPath(_, _), VisitAll(_, _)

\* lines 33-96: everything visit_path(data, key, _) yields
VisitPath(d, k) ==
    LET b == Body(d, k)
    IN CASE b.kind = "raise" -> Outcome(TRUE, <<>>)
         [] b.kind \in {"nodata", "leaf", "multi"} -> Outcome(FALSE, b.values)
         [] OTHER -> VisitAll(b.values, b.key)

\* lines 64-65, 76-77: for v in values: yield from visit_path(v, key, _)
VisitAll(values, k) ==
    IF values = <<>> THEN Outcome(FALSE, <<>>)
    ELSE LET h == VisitPath(Head(values), k)
         IN IF h.raised THEN h
            ELSE LET rest == VisitAll(Tail(values), k)
                 IN Outcome(rest.raised, h.out \o rest.out)

\* lines 100-104: list(visit_path(data, key, key)); an exception leaves no list
ExtractField(d, k) ==
    LET r == VisitPath(d, k)
    IN IF r.raised THEN Outcome(TRUE, <<>>) ELSE r

-----------------------------------------------------------------------------
(* The documents and paths extract_field is run on *)

MaxArray == 2        \* longest generated JSON array
MaxSegments == 3     \* most segments in a generated path

kBa == <<"b", "a">>
kBb == <<"b", "b">>
kC == <<"c">>
kX == <<"x">>
kY == <<"y">>
kZ == <<"z">>
sS == <<"s">>

Absent == [t |-> "absent"]

\* every dict whose keys are a subsequence of ks, in that order, with values in vals
DictsOver(ks, vals) ==
    { Dict(SelectSeq([i \in 1..Len(ks) |-> KV(ks[i], f[i])], LAMBDA e : e.v # Absent)) :
        f \in [1..Len(ks) -> vals \cup {Absent}] }

\* every list of at most n elements of vals
ListsOver(vals, n) == { List(xs) : xs \in UNION { [1..m -> vals] : m \in 0..n } }

Scalars == {Null, Bool(FALSE), Bool(TRUE), Num(0), Num(1), Str(<<>>), Str(sS)}

Leaves == Scalars \cup {List(<<>>), Dict(<<>>)}

X1 == Dict(<<KV(kX, Num(1))>>)

Elems == {Null, Num(1), X1, Dict(<<KV(kY, List(<<Num(1), Num(0)>>))>>)}

Arrays == ListsOver(Elems, MaxArray)

TopVals == {Num(1), Str(sS), X1,
            Dict(<<KV(kX, Num(0)), KV(kY, Str(sS))>>),
            List(<<X1, Num(1)>>)}

EntityDocs ==
    DictsOver(<<kBa, kBb, kC>>, TopVals) \cup DictsOver(<<kC, kBb, kBa>>, {Num(1), X1})

ArrayDocs ==
    { Dict(<<KV(kC, a)>>) : a \in Arrays \cup Leaves \cup {X1, Str(<<"x", "y">>)} }

DeepDocs ==
    { Dict(<<KV(kC, Dict(<<KV(kC, Dict(<<KV(kC, Num(1))>>))>>))>>),
      Dict(<<KV(kC, List(<<Dict(<<KV(kC, List(<<Dict(<<KV(kC, List(<<X1>>))>>)>>))>>)>>))>>),
      Dict(<<KV(kBa, Dict(<<KV(kX, List(<<List(<<List(<<Num(1)>>)>>)>>))>>))>>),
      List(<<List(<<List(<<Num(1)>>)>>)>>) }

Docs == Leaves \cup {List(<<Num(1)>>), List(<<X1>>)} \cup EntityDocs \cup ArrayDocs \cup DeepDocs

\* the i-th segment of a generated path is one of these tokens
SegmentsAt(i) ==
    CASE i = 1 -> { <<"b", "*">>, <<"*">>, kC, kBa, <<"c", "[", "]">>,
                    <<"[", "b", "a", ",", "c", "]">> }
      [] i = 2 -> { kX, <<"x", "*">>, <<"y", "[", "]">>, <<"[", "x", ",", "z", "]">> }
      [] OTHER -> { kX }

\* segs joined with '.'
RECURSIVE Dotted(_)
Dotted(segs) ==
    IF segs = <<>> THEN <<>>
    ELSE IF Len(segs) = 1 THEN segs[1]
    ELSE segs[1] \o <<".">> \o Dotted(Tail(segs))

Paths ==
    { Dotted(segs) : segs \in UNION { { f \in [1..n -> UNION { SegmentsAt(i) : i \in 1..n }] :
                                          \A i \in 1..n : f[i] \in SegmentsAt(i) } :
                                      n \in 0..MaxSegments } }

-----------------------------------------------------------------------------
(* list(visit_path(data, key, key)) as a stack of generator frames *)

Frame(d, k) == [data |-> d, key |-> k, at |-> "start", iter |-> <<>>]

Top == stack[Len(stack)]

\* the frames left when the innermost generator is exhausted
Popped == SubSeq(stack, 1, Len(stack) - 1)

Finish(rest) ==
    /\ stack' = rest
    /\ pc' = IF rest = <<>> THEN "done" ELSE "run"
    /\ steps' = steps + 1

AtStart(kind) ==
    /\ pc = "run"
    /\ Top.at = "start"
    /\ Body(Top.data, Top.key).kind = kind

\* line 41: return with nothing yielded
NoData ==
    /\ AtStart("nodata")
    /\ Finish(Popped)
    /\ UNCHANGED <<data, key, out, nvars, cvars>>

\* lines 45-47: yield data; return
YieldData ==
    /\ AtStart("leaf")
    /\ out' = out \o Body(Top.data, Top.key).values
    /\ Finish(Popped)
    /\ UNCHANGED <<data, key, nvars, cvars>>

\* lines 85-91: yield the composite; return
YieldMulti ==
    /\ AtStart("multi")
    /\ out' = out \o Body(Top.data, Top.key).values
    /\ Finish(Popped)
    /\ UNCHANGED <<data, key, nvars, cvars>>

\* the frame of a call that has fixed the values it will recurse into
Looping(frame) ==
    LET b == Body(frame.data, frame.key)
    IN [data |-> frame.data, key |-> b.key, at |-> "loop", iter |-> b.values]

\* lines 57-64: matching_subkeys is built
EnterWildcard ==
    /\ AtStart("wildcard")
    /\ stack' = [stack EXCEPT ![Len(stack)] = Looping(Top)]
    /\ steps' = steps + 1
    /\ UNCHANGED <<data, key, out, pc, nvars, cvars>>

\* lines 70-74: values is looked up
EnterArray ==
    /\ AtStart("array")
    /\ stack' = [stack EXCEPT ![Len(stack)] = Looping(Top)]
    /\ steps' = steps + 1
    /\ UNCHANGED <<data, key, out, pc, nvars, cvars>>

\* line 94: data.get(subkey, None) is looked up
EnterKey ==
    /\ AtStart("key")
    /\ stack' = [stack EXCEPT ![Len(stack)] = Looping(Top)]
    /\ steps' = steps + 1
    /\ UNCHANGED <<data, key, out, pc, nvars, cvars>>

\* lines 65, 77, 94: yield from visit_path(value, remaining_key, original_key)
Recurse ==
    /\ pc = "run"
    /\ Top.at = "loop"
    /\ Top.iter # <<>>
    /\ stack' = Append([stack EXCEPT ![Len(stack)].iter = Tail(Top.iter)],
                       Frame(Head(Top.iter), Top.key))
    /\ steps' = steps + 1
    /\ UNCHANGED <<data, key, out, pc, nvars, cvars>>

\* lines 67, 79, 96: return None once the loop is over
Return ==
    /\ pc = "run"
    /\ Top.at = "loop"
    /\ Top.iter = <<>>
    /\ Finish(Popped)
    /\ UNCHANGED <<data, key, out, nvars, cvars>>

\* an AttributeError or TypeError leaves every enclosing generator and list(...)
Raise ==
    /\ AtStart("raise")
    /\ stack' = <<>>
    /\ pc' = "raised"
    /\ steps' = steps + 1
    /\ UNCHANGED <<data, key, out, nvars, cvars>>

MatchInit ==
    /\ data \in Docs
    /\ key \in Paths
    /\ stack = <<Frame(data, key)>>
    /\ out = <<>>
    /\ pc = "run"
    /\ steps = 0
    \* no deduplicate_text or combine_and_dedupe call is being followed
    /\ input = <<>>
    /\ text = <<>>
    /\ split_point = 0
    /\ ret = <<>>
    /\ npc = "idle"
    /\ call = 0
    /\ first = <<>>
    /\ files = <<>>
    /\ fileIdx = 0
    /\ lineIdx = 0
    /\ seen_urls = {}
    /\ unique_items = <<>>
    /\ cpc = "idle"
    /\ output = <<>>

MatchNext ==
    \/ NoData
    \/ YieldData
    \/ YieldMulti
    \/ EnterWildcard
    \/ EnterArray
    \/ EnterKey
    \/ Recurse
    \/ Return
    \/ Raise

Spec == MatchInit /\ [][MatchNext]_vars

-----------------------------------------------------------------------------
(* Properties of the matcher *)

\* the call has ended, with a list or with an exception
Ended == pc \in {"done", "raised"}

\* k begins with p, stated position by position
HasPrefix(k, p) == Len(p) <= Len(k) /\ \A i \in 1..Len(p) : k[i] = p[i]

IsName(s) == \A i \in 1..Len(s) : s[i] \notin {".", "*", "[", "]", ","}

\* the path made of the segment seg followed by the remaining path r
PathOf(seg, r) == IF r = <<>> THEN seg ELSE seg \o <<".">> \o r

KeyPrefixes == { SubSeq(key, 1, i) : i \in 0..Len(key) }

KeySuffixes == { SubSeq(key, i, Len(key)) : i \in 1..(Len(key) + 1) }

KeySet(d) == { d.kvs[i].k : i \in 1..Len(d.kvs) }

\* the value stored under k, found by its pair
ValueAt(d, k) == (CHOOSE e \in { d.kvs[i] : i \in 1..Len(d.kvs) } : e.k = k).v

RECURSIVE SeqToBag(_)
SeqToBag(xs) ==
    IF xs = <<>> THEN EmptyBag ELSE SetToBag({Head(xs)}) (+) SeqToBag(Tail(xs))

\* the matches of r under every key of ks, as a multiset
RECURSIVE MatchesUnder(_, _, _)
MatchesUnder(d, ks, r) ==
    IF ks = {} THEN EmptyBag
    ELSE LET k == CHOOSE k \in ks : TRUE
         IN SeqToBag(VisitPath(ValueAt(d, k), r).out) (+) MatchesUnder(d, ks \ {k}, r)

\* match(e1, r), ..., match(en, r) concatenated in that order
RECURSIVE MatchesInOrder(_, _)
MatchesInOrder(es, r) ==
    IF es = <<>> THEN <<>>
    ELSE VisitPath(es[1], r).out \o MatchesInOrder(Tail(es), r)

NumSegments == IF key = <<>> THEN 0
               ELSE Cardinality({ i \in 1..Len(key) : key[i] = "." }) + 1

\* nesting depth of a document
RECURSIVE DocDepth(_)
DocDepth(v) ==
    LET Max(S) == IF S = {} THEN 0 ELSE CHOOSE m \in S : \A n \in S : n <= m
    IN CASE v.t = "list" -> 1 + Max({ DocDepth(v.items[i]) : i \in 1..Len(v.items) })
         [] v.t = "dict" -> 1 + Max({ DocDepth(v.kvs[i].v) : i \in 1..Len(v.kvs) })
         [] OTHER -> 0

\* the JSON values Python takes for false
FalsyValues == {Null, Bool(FALSE), Num(0), Str(<<>>), List(<<>>), Dict(<<>>)}

\* C1 as claimed: for every JSON value v, also a falsy one, matching v against
\* the empty path yields exactly <<v>>.
C1_EmptyPathYieldsValue ==
    (Ended /\ key = <<>>) => (pc = "done" /\ out = <<data>>)

\* C1 amended: matching v against the empty path yields exactly <<v>> for every
\* truthy JSON value v, and nothing for null, false, 0, "", [] and {}.
C1_EmptyPathYieldsTruthyValue ==
    (Ended /\ key = <<>>) =>
        /\ pc = "done"
        /\ out = IF data \in FalsyValues THEN <<>> ELSE <<data>>

C1_Witness ==
    /\ pc = "done"
    /\ key = <<>>
    /\ IsDict(data)
    /\ data \notin FalsyValues
    /\ out = <<data>>

\* C2: the matcher never raises, whatever the value and the path: a segment
\* applied to a value of the wrong shape contributes nothing.
C2_NeverRaises == pc # "raised"

\* C3: for a mapping m, matching WildcardKey(p) followed by r yields, as a
\* multiset, the union of match(m[k], r) over exactly the keys k of m that start
\* with p (and fails exactly when one of those sub-matches fails).
C3_WildcardFanOut ==
    (Ended /\ IsDict(data)) =>
      \A p \in KeyPrefixes, r \in KeySuffixes :
        (IsName(p) /\ key = PathOf(p \o <<"*">>, r)) =>
            LET ks == { k \in KeySet(data) : HasPrefix(k, p) }
            IN IF \E k \in ks : VisitPath(ValueAt(data, k), r).raised
               THEN pc = "raised"
               ELSE pc = "done" /\ SeqToBag(out) = MatchesUnder(data, ks, r)

C3_Witness ==
    /\ pc = "done"
    /\ key = PathOf(<<"b", "*">>, kX)
    /\ IsDict(data)
    /\ Cardinality({ k \in KeySet(data) : HasPrefix(k, <<"b">>) }) = 2
    /\ Cardinality(KeySet(data)) = 3
    /\ Len(out) = 2

\* C4: for a mapping m, matching ArrayKey(name) followed by r yields nothing
\* when name is absent from m, and match(e1, r), ..., match(en, r) in source
\* order when m[name] is the sequence [e1..en] (failing exactly when one of
\* those sub-matches fails).
C4_ArrayInOrder ==
    (Ended /\ IsDict(data)) =>
      \A name \in KeyPrefixes, r \in KeySuffixes :
        (IsName(name) /\ key = PathOf(name \o <<"[", "]">>, r)) =>
            IF name \notin KeySet(data)
            THEN pc = "done" /\ out = <<>>
            ELSE LET es == ValueAt(data, name)
                 IN es.t = "list" =>
                      IF \E i \in 1..Len(es.items) : VisitPath(es.items[i], r).raised
                      THEN pc = "raised"
                      ELSE pc = "done" /\ out = MatchesInOrder(es.items, r)

C4_Witness ==
    /\ pc = "done"
    /\ key = <<"c", "[", "]", ".", "y", "[", "]">>
    /\ IsDict(data)
    /\ kC \in KeySet(data)
    /\ ValueAt(data, kC).t = "list"
    /\ Len(ValueAt(data, kC).items) = 2
    /\ out = <<Num(1), Num(1)>>

\* what matching MultiKeyLeaf(n1, n2) followed by any r against a mapping gives
\* when Expected(n1, n2) is what it should give
MultiKeyLeafGives(Expected(_, _)) ==
    (Ended /\ IsDict(data) /\ key # <<>>) =>
      \A i \in 1..Len(key), j \in 1..Len(key) :
        LET n1 == SubSeq(key, 2, i - 1)
            n2 == SubSeq(key, i + 1, j - 1)
            r == SubSeq(key, j + 2, Len(key))
        IN (/\ i < j
            /\ IsName(n1) /\ IsName(n2) /\ n1 # n2
            /\ key = PathOf(<<"[">> \o n1 \o <<",">> \o n2 \o <<"]">>, r)) =>
               pc = "done" /\ out = Expected(n1, n2)

\* the one composite of n1 and n2: each name with data's value for it, or null
Composite(n1, n2) ==
    LET valueOf(n) == IF n \in KeySet(data) THEN ValueAt(data, n) ELSE Null
    IN <<Dict(<<KV(n1, valueOf(n1)), KV(n2, valueOf(n2))>>)>>

\* C5 as claimed: for a mapping m, also the empty one, and a list of names,
\* matching MultiKeyLeaf(names) yields exactly one composite mapping each name
\* to m's value for it, or to null, whatever follows the leaf in the path.
C5_MultiKeyLeaf == MultiKeyLeafGives(Composite)

\* C5 amended: for a mapping m that is not empty, matching MultiKeyLeaf(names)
\* yields exactly one composite mapping each name to m's value for it, or to
\* null, whatever follows the leaf in the path; the empty mapping, like a null
\* or missing value, yields nothing.
C5_MultiKeyLeafOfNonEmpty ==
    LET Expected(n1, n2) == IF KeySet(data) = {} THEN <<>> ELSE Composite(n1, n2)
    IN MultiKeyLeafGives(Expected)

\* a key of the composite is missing from the mapping, and a segment follows
C5_Witness ==
    /\ pc = "done"
    /\ key = PathOf(<<"[", "b", "a", ",", "c", "]">>, kX)
    /\ IsDict(data)
    /\ KeySet(data) = {kBa, kBb}
    /\ out = <<Dict(<<KV(kBa, ValueAt(data, kBa)), KV(kC, Null)>>)>>

\* the positions of a document a call can be made on: every value, every
\* character of a string, every key of a mapping
RECURSIVE Size(_), SizeOfAll(_)
Size(v) ==
    CASE v.t = "list" -> 1 + SizeOfAll(v.items)
      [] v.t = "dict" -> 1 + Len(v.kvs) + SizeOfAll([i \in 1..Len(v.kvs) |-> v.kvs[i].v])
      [] v.t = "str" -> 1 + Len(v.s)
      [] OTHER -> 1

SizeOfAll(vs) == IF vs = <<>> THEN 0 ELSE Size(Head(vs)) + SizeOfAll(Tail(vs))

\* some step of the walk can be taken
CanStep ==
    /\ pc = "run"
    /\ stack # <<>>
    /\ \/ Top.at = "loop"
       \/ /\ Top.at = "start"
          /\ Body(Top.data, Top.key).kind \in
                {"nodata", "leaf", "multi", "wildcard", "array", "key", "raise"}

\* C10: every call ends (a walk that has not ended can take a step, and takes
\* at most three steps per position of the document), and at every point of the
\* walk the number of nested active visit_path calls is at most the number of
\* segments of the path plus one, however deep the document.
C10_BoundedDepthAndTermination ==
    /\ Len(stack) <= NumSegments + 1
    /\ steps <= 3 * Size(data)
    /\ Ended \/ CanStep

C10_Witness ==
    /\ pc = "run"
    /\ NumSegments = 2
    /\ Len(stack) = NumSegments + 1
    /\ DocDepth(data) > NumSegments + 1

-----------------------------------------------------------------------------
(* deduplicate_text *)

MinLength == 100         \* line 131: shorter texts are returned as they are
MaxSignature == 100      \* line 142: most characters compared
MinSignature == 50       \* line 143: the signature must be longer than this

MaxCopies == 4           \* most copies of a block in a generated base text

\* the first n characters of the block a...ab of length p, repeated
Periodic(p, n) == [i \in 1..n |-> IF i % p = 0 THEN "b" ELSE "a"]

Periods == {20, 30, 51, 60, 101}

\* blocks repeated 1..MaxCopies times, as they are or closed by a 'z'
Bases ==
    { Periodic(p, p * c) \o tail :
        p \in Periods, c \in 1..MaxCopies, tail \in {<<>>, <<"z">>} }

\* the base texts, and each of them followed by a copy of itself
Texts == Bases \cup { S \o S : S \in Bases }

\* a signature that passes without regard to its length
SignatureMatchesAnyLength(first_part, second_part) ==
    LET signature_len == IF Len(first_part) < MaxSignature
                         THEN Len(first_part) ELSE MaxSignature
    IN signature_len > 0 /\ StartsWith(second_part, SubSeq(first_part, 1, signature_len))

\* lines 142-143: signature_len > 50 and
\*                second_part.startswith(first_part[:signature_len])
SignatureMatches(first_part, second_part) ==
    LET signature_len == IF Len(first_part) < MaxSignature
                         THEN Len(first_part) ELSE MaxSignature
    IN signature_len > MinSignature
       /\ StartsWith(second_part, SubSeq(first_part, 1, signature_len))

\* line 137: text[:split_point]
FirstPart == SubSeq(text, 1, split_point)

\* line 138: text[split_point:]
SecondPart == SubSeq(text, split_point + 1, Len(text))

\* line 136: the end of range(len(text) // 3, (len(text) * 2) // 3)
ScanEnd == (Len(text) * 2) \div 3

\* lines 131-132: if not text or len(text) < 100: return text
ShortReturn ==
    /\ npc = "check"
    /\ text = <<>> \/ Len(text) < MinLength
    /\ ret' = text
    /\ npc' = "returned"
    /\ UNCHANGED <<input, text, split_point, call, first, mvars, cvars>>

\* line 136: the loop starts at len(text) // 3
StartScan ==
    /\ npc = "check"
    /\ ~(text = <<>> \/ Len(text) < MinLength)
    /\ split_point' = Len(text) \div 3
    /\ npc' = "scan"
    /\ UNCHANGED <<input, text, ret, call, first, mvars, cvars>>

\* lines 137-144: the signature matches: return first_part
ReturnFirstPart ==
    /\ npc = "scan"
    /\ split_point < ScanEnd
    /\ SignatureMatches(FirstPart, SecondPart)
    /\ ret' = FirstPart
    /\ npc' = "returned"
    /\ UNCHANGED <<input, text, split_point, call, first, mvars, cvars>>

\* lines 136-143: no match at this split point: on to the next
NextSplit ==
    /\ npc = "scan"
    /\ split_point < ScanEnd
    /\ ~SignatureMatches(FirstPart, SecondPart)
    /\ split_point' = split_point + 1
    /\ UNCHANGED <<input, text, ret, npc, call, first, mvars, cvars>>

\* line 146: the loop is over: return text
ReturnText ==
    /\ npc = "scan"
    /\ split_point >= ScanEnd
    /\ ret' = text
    /\ npc' = "returned"
    /\ UNCHANGED <<input, text, split_point, call, first, mvars, cvars>>

\* deduplicate_text is called again, on what it returned
CallAgain ==
    /\ npc = "returned"
    /\ call = 1
    /\ first' = ret
    /\ text' = ret
    /\ call' = 2
    /\ npc' = "check"
    /\ UNCHANGED <<input, split_point, ret, mvars, cvars>>

NormalizeInit ==
    /\ input \in Texts
    /\ text = input
    /\ split_point = 0
    /\ ret = <<>>
    /\ npc = "check"
    /\ call = 1
    /\ first = <<>>
    \* no extract_field or combine_and_dedupe call is being followed
    /\ data = Null
    /\ key = <<>>
    /\ stack = <<>>
    /\ out = <<>>
    /\ pc = "idle"
    /\ steps = 0
    /\ files = <<>>
    /\ fileIdx = 0
    /\ lineIdx = 0
    /\ seen_urls = {}
    /\ unique_items = <<>>
    /\ cpc = "idle"
    /\ output = <<>>

NormalizeNext ==
    \/ ShortReturn
    \/ StartScan
    \/ ReturnFirstPart
    \/ NextSplit
    \/ ReturnText
    \/ CallAgain

NormalizeSpec == NormalizeInit /\ [][NormalizeNext]_vars

-----------------------------------------------------------------------------
(* Properties of deduplicate_text *)

\* deduplicate_text(input) has returned
Normalized == call = 1 /\ npc = "returned"

\* input is S followed by S, with S of at least 60 characters
InputDoubled ==
    /\ Len(input) % 2 = 0
    /\ Len(input) \div 2 >= 60
    /\ SubSeq(input, 1, Len(input) \div 2) = SubSeq(input, Len(input) \div 2 + 1, Len(input))

InputHalf == SubSeq(input, 1, Len(input) \div 2)

\* cutting input after its first n characters leaves a rest that begins with
\* the first min(100, n) of them
RepeatsAfter(n) ==
    LET m == IF n < 100 THEN n ELSE 100
    IN /\ n + m <= Len(input)
       /\ \A i \in 1..m : input[n + i] = input[i]

\* C6: deduplicate_text is idempotent: applied to its own result it returns
\* that result.
C6_Idempotent ==
    (call = 2 /\ npc = "returned") => ret = first

\* C7 as claimed: for S of at least 60 characters, deduplicate_text(S + S)
\* is exactly S.
C7_DoubledReturnsHalf ==
    (Normalized /\ InputDoubled) => ret = InputHalf

\* C7 amended: for S of at least 60 characters, deduplicate_text(S + S) is the
\* shortest prefix P of S, more than 50 and at least 2|S| div 3 characters
\* long, after which S + S goes on with the first min(100, |P|) characters of
\* P; it is S only when no shorter such prefix exists.
C7_DoubledReturnsShortestRepeat ==
    (Normalized /\ InputDoubled) =>
        LET n == Len(ret)
            half == Len(input) \div 2
            Cut(k) == k > 50 /\ k >= Len(input) \div 3 /\ RepeatsAfter(k)
        IN /\ n <= half
           /\ ret = SubSeq(input, 1, n)
           /\ Cut(n)
           /\ \A k \in 1..(n - 1) : ~Cut(k)
           /\ (ret = InputHalf <=> \A k \in 1..(half - 1) : ~Cut(k))

\* S = B B B with B of 30 characters: S + S is cut after B B
C7_Witness ==
    /\ Normalized
    /\ InputDoubled
    /\ input = Periodic(30, 180)
    /\ ret = Periodic(30, 60)

-----------------------------------------------------------------------------
(* combine_and_dedupe *)

MaxFiles == 2        \* most batch files matching the pattern
MaxLines == 2        \* most lines in a batch file

kUrl == <<"u", "r", "l">>
kN == <<"n">>

\* A line of a batch file, by what json.loads(line.strip()) makes of it:
\* text that is no JSON, a line that strips to nothing, or the text of a value.
Garbage == [text |-> "garbage"]
Blank == [text |-> "blank"]
TextOf(v) == [text |-> "json", value |-> v]

\* line 19: json.loads(line.strip()) raises JSONDecodeError
DecodeFails(line) == line.text \in {"garbage", "blank"}

\* line 19: the decoded item
JsonLoads(line) == line.value

Item1(u, n) == Dict(<<KV(kUrl, u), KV(kN, Num(n))>>)

Lines ==
    { Garbage, Blank,
      TextOf(Item1(Str(<<"p">>), 1)), TextOf(Item1(Str(<<"p">>), 2)),
      TextOf(Item1(Str(<<"q">>), 3)),
      TextOf(Item1(Num(1), 4)), TextOf(Item1(Bool(TRUE), 5)),
      TextOf(Item1(Str(<<>>), 6)), TextOf(Item1(Null, 7)),
      TextOf(Item1(List(<<Num(1)>>), 8)),
      TextOf(Dict(<<KV(kN, Num(9))>>)),
      TextOf(List(<<Num(1)>>)), TextOf(Num(5)) }

BatchFiles == UNION { [1..n -> Lines] : n \in 0..MaxLines }

FileLists == UNION { [1..n -> BatchFiles] : n \in 0..MaxFiles }

\* line 22: hash(url) raises TypeError for a list or a dict
Unhashable(v) == v.t \in {"list", "dict"}

\* set membership goes by == and hash: True is 1 and False is 0
AsSetMember(v) == IF v.t = "bool" THEN Num(IF v.b THEN 1 ELSE 0) ELSE v

CurrentFile == files[fileIdx]

CurrentLine == CurrentFile[lineIdx]

AtLine ==
    /\ cpc = "read"
    /\ fileIdx <= Len(files)
    /\ lineIdx <= Len(CurrentFile)

\* lines 25-27: JSONDecodeError: print and continue
SkipUndecodable ==
    /\ AtLine
    /\ DecodeFails(CurrentLine)
    /\ lineIdx' = lineIdx + 1
    /\ UNCHANGED <<files, fileIdx, seen_urls, unique_items, cpc, output, mvars, nvars>>

\* lines 20-24: a new url: the item is kept
Keep ==
    /\ AtLine
    /\ ~DecodeFails(CurrentLine)
    /\ IsDict(JsonLoads(CurrentLine))
    /\ LET item == JsonLoads(CurrentLine)
           url == Get(item, kUrl, Null)
       IN /\ ~Falsy(url)
          /\ ~Unhashable(url)
          /\ AsSetMember(url) \notin seen_urls
          /\ seen_urls' = seen_urls \cup {AsSetMember(url)}
          /\ unique_items' = Append(unique_items, item)
    /\ lineIdx' = lineIdx + 1
    /\ UNCHANGED <<files, fileIdx, cpc, output, mvars, nvars>>

\* line 22: no url, a falsy url or a url seen before: nothing is kept
Drop ==
    /\ AtLine
    /\ ~DecodeFails(CurrentLine)
    /\ IsDict(JsonLoads(CurrentLine))
    /\ LET url == Get(JsonLoads(CurrentLine), kUrl, Null)
       IN \/ Falsy(url)
          \/ ~Unhashable(url) /\ AsSetMember(url) \in seen_urls
    /\ lineIdx' = lineIdx + 1
    /\ UNCHANGED <<files, fileIdx, seen_urls, unique_items, cpc, output, mvars, nvars>>

\* line 20: AttributeError (the item has no .get), or line 22: TypeError (the
\* url cannot be hashed); only JSONDecodeError is caught, nothing is written
Abort ==
    /\ AtLine
    /\ ~DecodeFails(CurrentLine)
    /\ LET item == JsonLoads(CurrentLine)
       IN \/ ~IsDict(item)
          \/ /\ IsDict(item)
             /\ ~Falsy(Get(item, kUrl, Null))
             /\ Unhashable(Get(item, kUrl, Null))
    /\ cpc' = "aborted"
    /\ UNCHANGED <<files, fileIdx, lineIdx, seen_urls, unique_items, output, mvars, nvars>>

\* lines 14-17: the file is read through: on to the next
NextFile ==
    /\ cpc = "read"
    /\ fileIdx <= Len(files)
    /\ lineIdx > Len(CurrentFile)
    /\ fileIdx' = fileIdx + 1
    /\ lineIdx' = 1
    /\ UNCHANGED <<files, seen_urls, unique_items, cpc, output, mvars, nvars>>

\* lines 30-35: json.dump(unique_items, f)
WriteOutput ==
    /\ cpc = "read"
    /\ fileIdx > Len(files)
    /\ output' = unique_items
    /\ cpc' = "written"
    /\ UNCHANGED <<files, fileIdx, lineIdx, seen_urls, unique_items, mvars, nvars>>

CombineInit ==
    /\ files \in FileLists
    /\ fileIdx = 1
    /\ lineIdx = 1
    /\ seen_urls = {}
    /\ unique_items = <<>>
    /\ cpc = "read"
    /\ output = <<>>
    \* no extract_field or deduplicate_text call is being followed
    /\ data = Null
    /\ key = <<>>
    /\ stack = <<>>
    /\ out = <<>>
    /\ pc = "idle"
    /\ steps = 0
    /\ input = <<>>
    /\ text = <<>>
    /\ split_point = 0
    /\ ret = <<>>
    /\ npc = "idle"
    /\ call = 0
    /\ first = <<>>

CombineNext ==
    \/ SkipUndecodable
    \/ Keep
    \/ Drop
    \/ Abort
    \/ NextFile
    \/ WriteOutput

CombineSpec == CombineInit /\ [][CombineNext]_vars

-----------------------------------------------------------------------------
(* Properties of combine_and_dedupe *)

\* the lines of all the files, in order
RECURSIVE Concatenated(_)
Concatenated(fs) == IF fs = <<>> THEN <<>> ELSE Head(fs) \o Concatenated(Tail(fs))

\* a line holds a record with a key value: a JSON object with a url that is not null
IsRecord(line) ==
    /\ line.text = "json"
    /\ line.value.t = "dict"
    /\ kUrl \in KeySet(line.value)
    /\ ValueAt(line.value, kUrl) # Null

RecordKey(line) == ValueAt(line.value, kUrl)

\* the first record of each key value, in the order of the concatenation
FirstRecords ==
    LET all == Concatenated(files)
        firsts == SelectSeq([i \in 1..Len(all) |-> [i |-> i, line |-> all[i]]],
                            LAMBDA e : /\ IsRecord(e.line)
                                       /\ \A j \in 1..(e.i - 1) :
                                            IsRecord(all[j]) => RecordKey(all[j]) # RecordKey(e.line))
    IN [i \in 1..Len(firsts) |-> firsts[i].line.value]

\* C8: whatever the sources, the output holds, for each distinct key value of
\* any source, exactly the first record with that key in the concatenation of
\* the sources, in first-seen order.
C8_FirstRecordPerKey ==
    cpc \in {"written", "aborted"} => (cpc = "written" /\ output = FirstRecords)

\* C9: the merge never aborts on a bad entry: text that is no JSON, a blank
\* line, JSON that is no object, or an object with a missing or unusable key
\* is skipped and the lines after it are still read.
C9_NeverAborts == cpc # "aborted"

====
